---- MODULE Spec2Model ----
(***************************************************************************)
(* Model of the named connection registry (MongooseConnectionManager), the *)
(* module binder (moduleLoader) and the orchestrator (Myriad).             *)
(*                                                                         *)
(* The program runs on one thread with suspension at every await.  A call  *)
(* of an async method is a task; one action is the code a task runs        *)
(* between two suspension points.  The backing-store driver (mongoose) is  *)
(* outside the repository: the outcome of an establishment or of a close   *)
(* request, and the moment at which a 'disconnected' event is delivered,   *)
(* are nondeterministic.                                                   *)
(***************************************************************************)
EXTENDS Naturals, Sequences, FiniteSets, TLC

\* ------------------------------------------------------------------ bounds
MaxTasks == 2
MaxHandles == 2
MaxPasses == 2
MaxRecords == 2
MaxRegistries == 2
MaxOverlapPasses == 3

Tasks == 1..MaxTasks
Handles == 1..MaxHandles
Registries == 1..MaxRegistries

\* `undefined`, as a connection handle
Undefined == 0

Names == {"main", "logs"}
NoName == "-"

VARIABLES
  Connections,   \* Map<string, Connection>, insertion-ordered: a sequence of [key, val]
  readyState,    \* handle -> its driver state
  connName,      \* handle -> the `name` its event listeners closed over
  listeners,     \* handles on which addConnection attached its three listeners
  pendingDisc,   \* handles whose 'disconnected' event is emitted but not yet delivered
  nextHandle,    \* number of mongoose.createConnection calls made so far
  tasks,         \* task -> the async call it runs and where it is suspended
  moduleInstances, \* Myriad.moduleInstances: Map<string, SchemaModule>, as Connections
  props,         \* app[record.modelName]: entity name -> module instance
  instances,     \* the module instances created so far: instance i is instances[i]
  passCount,     \* number of init / reloadModule calls made so far
  appReady,      \* Myriad.init has returned the application object
  registries,    \* the MongooseConnectionManager objects constructed in the process
  stored,        \* registry -> the keys of its Connections map
  handler,       \* registry -> where its SIGINT listener is suspended
  signalled,     \* SIGINT has been delivered to the process
  exited,        \* process.exit(0) has been called
  lastEvent,     \* the latest driver event a listener of addConnection has handled
  tsConnections, \* the Connections map of a registry of the TypeScript variant
  mjsConnections, \* the Connections map of the registry the .mjs variant exports
  outcome,       \* variant -> how its latest call ended
  lastCall       \* the latest call made on both variants, with the driver's outcomes

regVars == <<Connections, readyState, connName, listeners, pendingDisc, nextHandle>>

appVars == <<moduleInstances, props, instances, passCount, appReady>>

sigVars == <<registries, stored, handler, signalled, exited>>

evVars == <<lastEvent>>

eqVars == <<tsConnections, mjsConnections, outcome, lastCall>>

progVars == <<Connections, readyState, connName, listeners, pendingDisc, nextHandle,
              tasks, moduleInstances, props, instances, passCount, appReady>>

vars == <<Connections, readyState, connName, listeners, pendingDisc, nextHandle,
          tasks, moduleInstances, props, instances, passCount, appReady,
          registries, stored, handler, signalled, exited,
          lastEvent, tsConnections, mjsConnections, outcome, lastCall>>

\* --------------------------------------------------------------- JS Map
MapHas(m, k) == \E i \in 1..Len(m) : m[i].key = k

MapIndex(m, k) == CHOOSE i \in 1..Len(m) : m[i].key = k

MapGet(m, k) == IF MapHas(m, k) THEN m[MapIndex(m, k)].val ELSE Undefined

MapSet(m, k, v) ==
  IF MapHas(m, k)
    THEN [m EXCEPT ![MapIndex(m, k)] = [key |-> k, val |-> v]]
    ELSE Append(m, [key |-> k, val |-> v])

MapDelete(m, k) == SelectSeq(m, LAMBDA e : e.key # k)

MapKeys(m) == [i \in 1..Len(m) |-> m[i].key]

MapValues(m) == {m[i].val : i \in 1..Len(m)}

MapClear == <<>>

\* --------------------------------------------------------------- console
\* a line a call writes with console.log / console.warn / console.error
Log(level, what) == [level |-> level, what |-> what]

NoLog == Log("none", "none")

\* ----------------------------------------------------------------- tasks
\* `undefined`, as a URI
UndefinedUri == "undefined"

NoConfig == [records |-> <<>>, globalUri |-> UndefinedUri, libMode |-> FALSE]

IdleTask ==
  [op |-> "none", pc |-> "idle", name |-> NoName, conn |-> Undefined,
   issued |-> {}, pending |-> {}, failed |-> FALSE, result |-> Undefined,
   log |-> NoLog, exists |-> TRUE,
   cfg |-> NoConfig, files |-> <<>>, catalog |-> <<>>, idx |-> 0, pass |-> 0]

IsIdle(t) == tasks[t].pc = "idle"

\* a new call takes the lowest free slot
FreeSlot(t) == IsIdle(t) /\ \A u \in Tasks : u < t => ~IsIdle(u)

\* the caller takes the settled promise of task t; the slot is free again
Collect(t) ==
  /\ UNCHANGED <<appVars, sigVars, evVars, eqVars>>
  /\ tasks[t].pc \in {"done", "threw"}
  /\ tasks' = [tasks EXCEPT ![t] = IdleTask]
  /\ UNCHANGED <<Connections, readyState, connName, listeners, pendingDisc, nextHandle>>

\* ------------------------------------------------------- addConnection
\* after addConnection returns: its caller is done, or getOrCreateConnection re-reads
AfterAdd(op) == IF op = "addConnection" THEN "done" ELSE "reread"

\* if (this.Connections.has(name)) { warn; return }
AddGuardNoGuard(name) == FALSE

AddGuard(name) == MapHas(Connections, name)

\* addConnection up to its await: the guard, then mongoose.createConnection(url)
AddConnectionBody(t, name, op) ==
  IF AddGuard(name)
    THEN /\ tasks' = [tasks EXCEPT ![t] =
                        [@ EXCEPT !.op = op, !.name = name, !.pc = AfterAdd(op),
                                  !.conn = Undefined,
                                  !.log = Log("warn", "already exists")]]
         /\ UNCHANGED <<Connections, readyState, connName, listeners, pendingDisc,
                        nextHandle>>
    ELSE /\ nextHandle < MaxHandles
         /\ nextHandle' = nextHandle + 1
         /\ readyState' = [readyState EXCEPT ![nextHandle + 1] = "CONNECTING"]
         /\ tasks' = [tasks EXCEPT ![t] =
                        [@ EXCEPT !.op = op, !.name = name,
                                  !.pc = "awaitConnect", !.conn = nextHandle + 1]]
         /\ UNCHANGED <<Connections, connName, listeners, pendingDisc>>

AddConnection(t, name) ==
  /\ UNCHANGED <<appVars, sigVars, evVars, eqVars>>
  /\ FreeSlot(t)
  /\ AddConnectionBody(t, name, "addConnection")

\* the establishment resolved: attach the listeners, store the handle, return
AddResolved(t) ==
  /\ UNCHANGED <<appVars, sigVars, evVars, eqVars>>
  /\ tasks[t].pc = "awaitConnect"
  /\ LET h == tasks[t].conn
         n == tasks[t].name
     IN /\ readyState' = [readyState EXCEPT ![h] = "CONNECTED"]
        /\ connName' = [connName EXCEPT ![h] = n]
        /\ listeners' = listeners \cup {h}
        /\ Connections' = MapSet(Connections, n, h)
        /\ tasks' = [tasks EXCEPT ![t].pc = AfterAdd(tasks[t].op)]
  /\ UNCHANGED <<pendingDisc, nextHandle>>

\* the establishment rejected: catch, log, return; nothing is stored
AddRejectedStores(t) ==
  /\ UNCHANGED <<appVars, sigVars, evVars, eqVars>>
  /\ tasks[t].pc = "awaitConnect"
  /\ readyState' = [readyState EXCEPT ![tasks[t].conn] = "DISCONNECTED"]
  /\ Connections' = MapSet(Connections, tasks[t].name, tasks[t].conn)
  /\ tasks' = [tasks EXCEPT ![t].pc = AfterAdd(tasks[t].op), ![t].conn = Undefined,
                            ![t].log = Log("error", "failed to connect")]
  /\ UNCHANGED <<connName, listeners, pendingDisc, nextHandle>>

AddRejected(t) ==
  /\ UNCHANGED <<appVars, sigVars, evVars, eqVars>>
  /\ tasks[t].pc = "awaitConnect"
  /\ readyState' = [readyState EXCEPT ![tasks[t].conn] = "DISCONNECTED"]
  /\ tasks' = [tasks EXCEPT ![t].pc = AfterAdd(tasks[t].op), ![t].conn = Undefined,
                            ![t].log = Log("error", "failed to connect")]
  /\ UNCHANGED <<Connections, connName, listeners, pendingDisc, nextHandle>>

\* ----------------------------------------------------- getAllConnections
\* withDetails false: Array.from(this.Connections.keys()); true: one entry per
\* connection with its name and the name of its readyState
GetAllConnections(withDetails) ==
  IF ~withDetails
    THEN MapKeys(Connections)
    ELSE [i \in 1..Len(Connections) |->
            [name |-> Connections[i].key, state |-> readyState[Connections[i].val]]]

\* ------------------------------------------------ getOrCreateConnection
\* after getOrCreateConnection returns
AfterGetOrCreate(op) == IF op = "getOrCreateConnection" THEN "done" ELSE "gotConnection"

\* if (has(name)) return get(name); otherwise addConnection runs up to its await
GetOrCreateBody(t, name, op) ==
  IF MapHas(Connections, name)
    THEN /\ tasks' = [tasks EXCEPT ![t] =
                        [@ EXCEPT !.op = op, !.name = name, !.pc = AfterGetOrCreate(op),
                                  !.conn = Undefined,
                                  !.result = MapGet(Connections, name)]]
         /\ UNCHANGED <<Connections, readyState, connName, listeners, pendingDisc,
                        nextHandle>>
    ELSE AddConnectionBody(t, name, op)

GetOrCreateConnection(t, name) ==
  /\ UNCHANGED <<appVars, sigVars, evVars, eqVars>>
  /\ FreeSlot(t)
  /\ GetOrCreateBody(t, name, "getOrCreateConnection")

\* what getOrCreateConnection returns once its addConnection has returned
RereadNothing(t) == Undefined

Reread(t) == MapGet(Connections, tasks[t].name)

\* await this.addConnection(...) is over: return this.Connections.get(name)
GetOrCreateReturn(t) ==
  /\ UNCHANGED <<appVars, sigVars, evVars, eqVars>>
  /\ tasks[t].pc = "reread"
  /\ tasks' = [tasks EXCEPT ![t].pc = AfterGetOrCreate(tasks[t].op),
                            ![t].result = Reread(t)]
  /\ UNCHANGED <<Connections, readyState, connName, listeners, pendingDisc, nextHandle>>

\* ----------------------------------------------------- closeConnection
CloseConnection(t, name) ==
  /\ UNCHANGED <<appVars, sigVars, evVars, eqVars>>
  /\ FreeSlot(t)
  /\ LET connection == MapGet(Connections, name)
     IN IF connection # Undefined
          THEN tasks' = [tasks EXCEPT ![t] =
                           [IdleTask EXCEPT !.op = "closeConnection", !.name = name,
                                            !.pc = "awaitClose", !.conn = connection,
                                            !.issued = {connection},
                                            !.pending = {connection}]]
          ELSE tasks' = [tasks EXCEPT ![t] =
                           [IdleTask EXCEPT !.op = "closeConnection", !.name = name,
                                            !.pc = "done",
                                            !.log = Log("warn", "cannot close: not found")]]
  /\ UNCHANGED <<Connections, readyState, connName, listeners, pendingDisc, nextHandle>>

\* the driver settles one close request of task t.  A close that succeeds leaves
\* the handle DISCONNECTED and emits 'disconnected'; a close that fails leaves the
\* handle as it was.  closeAllConnections catches and logs a failure, closeConnection
\* does not.
CloseSettle(t, h, ok) ==
  /\ UNCHANGED <<appVars, sigVars, evVars, eqVars>>
  /\ tasks[t].pc \in {"awaitClose", "awaitAll"}
  /\ h \in tasks[t].pending
  /\ IF ok
       THEN /\ readyState' = [readyState EXCEPT ![h] = "DISCONNECTED"]
            /\ pendingDisc' = IF readyState[h] = "CONNECTED" /\ h \in listeners
                                THEN pendingDisc \cup {h} ELSE pendingDisc
            /\ tasks' = [tasks EXCEPT ![t].pending = @ \ {h}]
       ELSE /\ tasks' = [tasks EXCEPT
                           ![t].pending = @ \ {h},
                           ![t].failed = (tasks[t].op = "closeConnection"),
                           ![t].log = IF tasks[t].op = "closeAllConnections"
                                        THEN Log("error", "closing") ELSE @]
            /\ UNCHANGED <<readyState, pendingDisc>>
  /\ UNCHANGED <<Connections, connName, listeners, nextHandle>>

\* await connection.close() is over: return, or rethrow the rejection
CloseConnectionReturn(t) ==
  /\ UNCHANGED <<appVars, sigVars, evVars, eqVars>>
  /\ tasks[t].pc = "awaitClose"
  /\ tasks[t].pending = {}
  /\ tasks' = [tasks EXCEPT ![t].pc = IF tasks[t].failed THEN "threw" ELSE "done"]
  /\ UNCHANGED <<Connections, readyState, connName, listeners, pendingDisc, nextHandle>>

\* ------------------------------------------------- closeAllConnections
\* the handles the for loop calls close() on
ToClose == MapValues(Connections)

CloseAllConnections(t) ==
  /\ UNCHANGED <<appVars, sigVars, evVars, eqVars>>
  /\ FreeSlot(t)
  /\ tasks' = [tasks EXCEPT ![t] =
                 [IdleTask EXCEPT !.op = "closeAllConnections", !.pc = "awaitAll",
                                  !.issued = ToClose, !.pending = ToClose,
                                  !.log = Log("info", "closing all")]]
  /\ UNCHANGED <<Connections, readyState, connName, listeners, pendingDisc, nextHandle>>

\* may Promise.allSettled resolve?
AllSettledFirst(t) == tasks[t].issued = {} \/ tasks[t].pending # tasks[t].issued

AllSettled(t) == tasks[t].pending = {}

\* the map after the join
AfterJoinKeepOpen(t) == SelectSeq(Connections, LAMBDA e : readyState[e.val] = "CONNECTED")

AfterJoin(t) == MapClear

CloseAllReturn(t) ==
  /\ UNCHANGED <<appVars, sigVars, evVars, eqVars>>
  /\ tasks[t].pc = "awaitAll"
  /\ AllSettled(t)
  /\ Connections' = AfterJoin(t)
  /\ tasks' = [tasks EXCEPT ![t].pc = "done", ![t].log = Log("info", "pool cleared")]
  /\ UNCHANGED <<readyState, connName, listeners, pendingDisc, nextHandle>>

\* -------------------------------------------------------- driver events
\* conn.on("disconnected"): this.Connections.delete(name)
OnDisconnected(h) == Connections' = MapDelete(Connections, connName[h])

\* the 'disconnected' event of a successful close reaches the listener
DeliverDisconnected(h) ==
  /\ UNCHANGED <<appVars, sigVars, evVars, eqVars>>
  /\ h \in pendingDisc
  /\ pendingDisc' = pendingDisc \ {h}
  /\ OnDisconnected(h)
  /\ UNCHANGED <<readyState, connName, listeners, nextHandle, tasks>>

\* the link of a handle drops by itself: the driver emits 'disconnected'
DriverDisconnect(h) ==
  /\ UNCHANGED <<appVars, sigVars, evVars, eqVars>>
  /\ readyState[h] = "CONNECTED"
  /\ h \in listeners
  /\ readyState' = [readyState EXCEPT ![h] = "DISCONNECTED"]
  /\ OnDisconnected(h)
  /\ UNCHANGED <<connName, listeners, pendingDisc, nextHandle, tasks>>

\* ------------------------------------------------ the three listeners
\* no listener has run yet
NoEvent == [handle |-> Undefined, kind |-> "none"]

Events == {"connected", "error", "disconnected"}

\* the listener addConnection attached to h for event ev: "connected" and "error"
\* write a log line, "disconnected" writes one and deletes the name
OnEventErrorDeletes(h, ev) ==
  IF ev \in {"disconnected", "error"} THEN OnDisconnected(h) ELSE UNCHANGED Connections

OnEvent(h, ev) ==
  IF ev = "disconnected" THEN OnDisconnected(h) ELSE UNCHANGED Connections

\* what the driver does to the handle when it emits ev: the link is back
\* ("connected"), is lost ("disconnected"), or reports a failure ("error")
Emits(h, ev) ==
  CASE ev = "connected" ->
         /\ readyState[h] = "DISCONNECTED"
         /\ readyState' = [readyState EXCEPT ![h] = "CONNECTED"]
    [] ev = "disconnected" ->
         /\ readyState[h] = "CONNECTED"
         /\ readyState' = [readyState EXCEPT ![h] = "DISCONNECTED"]
    [] OTHER ->
         /\ readyState[h] \in {"CONNECTED", "DISCONNECTED"}
         /\ UNCHANGED readyState

\* the driver emits ev on a handle that carries the listeners
Emit(h, ev) ==
  /\ UNCHANGED <<appVars, sigVars, eqVars>>
  /\ h \in listeners
  /\ Emits(h, ev)
  /\ OnEvent(h, ev)
  /\ lastEvent' = [handle |-> h, kind |-> ev]
  /\ UNCHANGED <<connName, listeners, pendingDisc, nextHandle, tasks>>

\* ============================================================ orchestrator
ModelNames == {"User", "Log"}

\* JS truthiness of a string-or-undefined
Truthy(u) == u # UndefinedUri /\ u # ""

\* String.prototype.toLowerCase on the blueprint names in use
ToLowerCase(x) ==
  CASE x = "UserModule" -> "usermodule"
    [] x = "USERMODULE" -> "usermodule"
    [] x = "LogModule" -> "logmodule"
    [] OTHER -> x

\* record.modelModule: a blueprint name, or (library mode) the blueprint class itself
StrRef(x) == [kind |-> "string", id |-> x]

ClassRef(x) == [kind |-> "class", id |-> x]

Record(n, u, m, mm) == [name |-> n, uri |-> u, modelName |-> m, modelModule |-> mm]

Records ==
  { Record("main", "store://a", "User", StrRef("UserModule")),
    Record("logs", "store://b", "Log", StrRef("logmodule")),
    Record("logs", UndefinedUri, "Log", StrRef("LogModule")),
    Record("main", "store://a", "User", StrRef("Ghost")),
    Record("main", "store://a", "User", ClassRef("UserModule")) }

RecordSeqs == UNION {[1..k -> Records] : k \in 1..MaxRecords}

\* myriad.config.js as found on disk at a load
ConfigFiles ==
  [exists : BOOLEAN, useGlobalUri : BOOLEAN, globalUri : {UndefinedUri, "", "store://g"},
   libMode : BOOLEAN, records : RecordSeqs]

\* the arguments moduleLoader gets from init / reloadModule
LoaderArgs(cf) ==
  [records |-> cf.records,
   globalUri |-> IF cf.useGlobalUri THEN cf.globalUri ELSE UndefinedUri,
   libMode |-> cf.libMode]

\* a *.module.{ts,js} file of ./src/modules: the class it default-exports, or
\* NoDefault when it has no default export; loads is false when its import rejects
NoDefault == "undefined"

File(cls, ok) == [cls |-> cls, loads |-> ok]

\* what glob returns, in the order the loop imports the files
FileLists ==
  { <<File("UserModule", TRUE), File("LogModule", TRUE)>>,
    <<File("UserModule", TRUE)>>,
    <<File("UserModule", TRUE), File("LogModule", FALSE)>>,
    <<File(NoDefault, TRUE), File("UserModule", TRUE)>>,
    <<File("UserModule", TRUE), File("USERMODULE", TRUE)>> }

\* the discovery loop: availableModules.set(ModuleClass.name.toLowerCase(), ModuleClass)
RECURSIVE ScanFirstWins(_, _, _)
ScanFirstWins(files, i, cat) ==
  IF i > Len(files) THEN cat
  ELSE ScanFirstWins(files, i + 1,
                     IF MapHas(cat, ToLowerCase(files[i].cls)) THEN cat
                     ELSE MapSet(cat, ToLowerCase(files[i].cls),
                                 [cls |-> files[i].cls, file |-> i]))

RECURSIVE Scan(_, _, _)
Scan(files, i, cat) ==
  IF i > Len(files) THEN cat
  ELSE Scan(files, i + 1,
            MapSet(cat, ToLowerCase(files[i].cls), [cls |-> files[i].cls, file |-> i]))

\* neither `await import(file)` nor `ModuleClass.name` (of an undefined default
\* export) is inside a try: the first file that fails ends the loop by a throw
Bad(f) == ~f.loads \/ f.cls = NoDefault

AllLoad(files) == \A i \in 1..Len(files) : ~Bad(files[i])

FirstBad(files) == CHOOSE i \in 1..Len(files) : Bad(files[i]) /\ \A j \in 1..(i - 1) : ~Bad(files[j])

NoAppCall == \A t \in Tasks : tasks[t].op \notin {"init", "reloadModule"}

\* if (!fs.existsSync(fullPath)) throw new Error("MyriadJS config not found ...")
MissingIgnored(cf) == FALSE

ConfigMissing(cf) == ~cf.exists

\* loadConfig: existsSync, else throw; then the import of the file
LoadConfig(t, op, cf) ==
  tasks' = [tasks EXCEPT ![t] =
              IF ConfigMissing(cf)
                THEN [IdleTask EXCEPT !.op = op, !.pc = "threw", !.pass = passCount + 1,
                                      !.exists = cf.exists,
                                      !.log = Log("throw", "config not found")]
                ELSE [IdleTask EXCEPT !.op = op, !.pc = "loaded", !.cfg = LoaderArgs(cf),
                                      !.exists = cf.exists,
                                      !.pass = passCount + 1]]

\* Myriad.init: new Myriad(), loadConfig
MyriadInit(t, configs) ==
  /\ FreeSlot(t)
  /\ passCount = 0
  /\ passCount' = 1
  /\ \E cf \in configs : LoadConfig(t, "init", cf)
  /\ UNCHANGED <<regVars, moduleInstances, props, instances, appReady, sigVars, evVars, eqVars>>

\* reloadModule: moduleInstances.clear(), loadConfig
ModulesAfterClearKept == moduleInstances

ModulesAfterClear == MapClear

ReloadCall(t, configs) ==
  /\ FreeSlot(t)
  /\ appReady
  /\ passCount' = passCount + 1
  /\ moduleInstances' = ModulesAfterClear
  /\ \E cf \in configs : LoadConfig(t, "reloadModule", cf)
  /\ UNCHANGED <<regVars, props, instances, appReady, sigVars, evVars, eqVars>>

\* a reloadModule call, while the number of passes is within the bound
ReloadModule(t, configs) == passCount < MaxPasses /\ ReloadCall(t, configs)

\* a reloadModule call that may start while another one is in progress
ReloadOverlapping(t, configs) == passCount < MaxOverlapPasses /\ ReloadCall(t, configs)

\* registerModule(name, module): this.moduleInstances.set(name, module)
RegisterModuleKeepFirst(m, name, module) ==
  IF MapHas(m, name) THEN m ELSE MapSet(m, name, module)

RegisterModule(m, name, module) == MapSet(m, name, module)

\* moduleLoader, discovery phase: glob, then import every file found
Discover(t, fileLists) ==
  /\ tasks[t].pc = "loaded"
  /\ IF tasks[t].cfg.libMode
       THEN tasks' = [tasks EXCEPT ![t].pc = "record", ![t].idx = 1]
       ELSE \E files \in fileLists :
              tasks' = [tasks EXCEPT ![t] =
                          IF AllLoad(files)
                            THEN [@ EXCEPT !.pc = "record", !.idx = 1, !.files = files,
                                           !.catalog = Scan(files, 1, <<>>)]
                            ELSE [@ EXCEPT !.pc = "threw", !.files = files,
                                           !.catalog = Scan(SubSeq(files, 1, FirstBad(files) - 1), 1, <<>>),
                                           !.log = IF files[FirstBad(files)].loads
                                                     THEN Log("throw", "no default export")
                                                     ELSE Log("throw", "import failed")]]
  /\ UNCHANGED <<regVars, appVars, sigVars, evVars, eqVars>>

CurrentRecord(t) == tasks[t].cfg.records[tasks[t].idx]

\* const name = globalUri ? "globalDB" : record.name
EffectiveNameShared(t) == "globalDB"

EffectiveNameOwn(t) == CurrentRecord(t).name

EffectiveName(t) ==
  IF Truthy(tasks[t].cfg.globalUri) THEN "globalDB" ELSE CurrentRecord(t).name

\* const uri = globalUri ?? record.uri
EffectiveUri(t) ==
  IF tasks[t].cfg.globalUri # UndefinedUri
    THEN tasks[t].cfg.globalUri ELSE CurrentRecord(t).uri

\* continue: the next record, nothing registered for this one
SkipAborts(t, why) == [tasks[t] EXCEPT !.pc = "done", !.log = Log("warn", why)]

Skip(t, why) == [tasks[t] EXCEPT !.pc = "record", !.idx = @ + 1, !.log = Log("warn", why)]

\* const formattedModule = record.modelModule.padEnd(20, " "): padEnd is a String
\* method, so the call throws a TypeError when the record carries a class
PadEndThrows(t) == CurrentRecord(t).modelModule.kind = "class"

\* construction phase, one record up to `await getOrCreateConnection(name, uri)`
BindRecordNoUriCheck(t) ==
  /\ tasks[t].pc = "record"
  /\ tasks[t].idx <= Len(tasks[t].cfg.records)
  /\ IF PadEndThrows(t)
       THEN /\ tasks' = [tasks EXCEPT ![t].pc = "threw",
                                      ![t].log = Log("throw", "padEnd")]
            /\ UNCHANGED regVars
       ELSE GetOrCreateBody(t, EffectiveName(t), tasks[t].op)
  /\ UNCHANGED <<appVars, sigVars, evVars, eqVars>>

BindRecord(t) ==
  /\ tasks[t].pc = "record"
  /\ tasks[t].idx <= Len(tasks[t].cfg.records)
  /\ IF PadEndThrows(t)
       THEN /\ tasks' = [tasks EXCEPT ![t].pc = "threw",
                                      ![t].log = Log("throw", "padEnd")]
            /\ UNCHANGED regVars
       ELSE IF ~Truthy(EffectiveUri(t))
         THEN /\ tasks' = [tasks EXCEPT ![t] = Skip(t, "no database uri")]
              /\ UNCHANGED regVars
         ELSE GetOrCreateBody(t, EffectiveName(t), tasks[t].op)
  /\ UNCHANGED <<appVars, sigVars, evVars, eqVars>>

\* isLibraryMode ? record.modelModule : availableModules.get(...toLowerCase())
Resolves(t) ==
  \/ tasks[t].cfg.libMode
  \/ MapHas(tasks[t].catalog, ToLowerCase(CurrentRecord(t).modelModule.id))

\* the class the record resolves to
ModuleClass(t) ==
  IF tasks[t].cfg.libMode
    THEN [cls |-> CurrentRecord(t).modelModule.id, file |-> 0]
    ELSE MapGet(tasks[t].catalog, ToLowerCase(CurrentRecord(t).modelModule.id))

\* does `new ModuleClass(connection, ...)` throw?  new on a string (library mode
\* with a blueprint name); SchemaModule's constructor reading connection.models
\* of undefined
NewThrows(t) ==
  \/ tasks[t].cfg.libMode /\ CurrentRecord(t).modelModule.kind = "string"
  \/ tasks[t].result = Undefined

\* construction phase, from the connection to the end of the iteration
Instantiate(t) ==
  /\ tasks[t].pc = "gotConnection"
  /\ IF ~Resolves(t)
       THEN /\ tasks' = [tasks EXCEPT ![t] = Skip(t, "module not found")]
            /\ UNCHANGED appVars
       ELSE IF NewThrows(t)
         THEN /\ tasks' = [tasks EXCEPT ![t].pc = "threw",
                                        ![t].log = Log("throw", "constructor")]
              /\ UNCHANGED appVars
         ELSE /\ instances' = Append(instances,
                                      [conn |-> tasks[t].result, pass |-> tasks[t].pass,
                                       name |-> CurrentRecord(t).name,
                                       model |-> CurrentRecord(t).modelName,
                                       blueprint |-> ModuleClass(t)])
              /\ props' = [props EXCEPT ![CurrentRecord(t).modelName] =
                                          Len(instances) + 1]
              /\ moduleInstances' = RegisterModule(moduleInstances, CurrentRecord(t).name,
                                                   Len(instances) + 1)
              /\ tasks' = [tasks EXCEPT ![t].pc = "record", ![t].idx = @ + 1,
                                        ![t].log = Log("info", "ready")]
              /\ UNCHANGED <<passCount, appReady>>
  /\ UNCHANGED <<regVars, sigVars, evVars, eqVars>>

\* the loop is over: moduleLoader returns, then init (with the app) or reloadModule
PassReturn(t) ==
  /\ tasks[t].pc = "record"
  /\ tasks[t].idx > Len(tasks[t].cfg.records)
  /\ tasks' = [tasks EXCEPT ![t].pc = "done", ![t].log = Log("info", "complete")]
  /\ appReady' = (appReady \/ tasks[t].op = "init")
  /\ UNCHANGED <<regVars, moduleInstances, props, instances, passCount, sigVars, evVars, eqVars>>

\* getModule(name)
GetModule(name) == MapGet(moduleInstances, name)

\* ========================================================= shutdown hook
\* Every MongooseConnectionManager installs its own SIGINT listener in its
\* constructor; a registry is seen here through the keys of its map.
IdleHandler == [pc |-> "none", pending |-> {}, calls |-> 0]

\* new MongooseConnectionManager(): an empty map, process.on("SIGINT", ...)
NewRegistry(r) ==
  /\ ~exited
  /\ r \notin registries
  /\ \A q \in Registries : q < r => q \in registries
  /\ registries' = registries \cup {r}
  /\ UNCHANGED <<stored, handler, signalled, exited, progVars, evVars, eqVars>>

\* an addConnection of registry r has stored a handle under n
Store(r, n) ==
  /\ ~exited
  /\ r \in registries
  /\ n \notin stored[r]
  /\ stored' = [stored EXCEPT ![r] = @ \cup {n}]
  /\ UNCHANGED <<registries, handler, signalled, exited, progVars, evVars, eqVars>>

\* the listener of registry r, run by the 'SIGINT' event up to its await:
\* closeAllConnections calls close() on every entry and awaits allSettled
OnSigint(r) == [pc |-> "awaitAll", pending |-> stored[r], calls |-> handler[r].calls + 1]

\* SIGINT arrives: the process emits 'SIGINT', every installed listener runs
Sigint ==
  /\ ~exited
  /\ ~signalled
  /\ registries # {}
  /\ signalled' = TRUE
  /\ handler' = [r \in Registries |-> IF r \in registries THEN OnSigint(r) ELSE handler[r]]
  /\ UNCHANGED <<registries, stored, exited, progVars, evVars, eqVars>>

\* a close request issued by the listener of r settles (a failure is caught)
HandlerCloseSettle(r, n) ==
  /\ ~exited
  /\ handler[r].pc = "awaitAll"
  /\ n \in handler[r].pending
  /\ handler' = [handler EXCEPT ![r].pending = @ \ {n}]
  /\ UNCHANGED <<registries, stored, signalled, exited, progVars, evVars, eqVars>>

\* allSettled resolves: Connections.clear(), closeAllConnections returns, the
\* listener logs "System Halted" and calls process.exit(0)
HandlerResume(r) ==
  /\ ~exited
  /\ handler[r].pc = "awaitAll"
  /\ handler[r].pending = {}
  /\ stored' = [stored EXCEPT ![r] = {}]
  /\ handler' = [handler EXCEPT ![r].pc = "halted"]
  /\ exited' = TRUE
  /\ UNCHANGED <<registries, signalled, progVars, evVars, eqVars>>

\* ========================================== the two variants, side by side
\* connection.manager.ts and connector.handler.mjs, each with a registry of its
\* own, get the same calls one after the other, and the driver gives both the
\* same outcomes. A map entry holds the readyState of the handle stored.
Variants == {"ts", "mjs"}

NoCall == [op |-> "none", name |-> NoName, ok |-> TRUE, fails |-> {}]

\* addConnection of the .ts variant, run to its end: the has-guard, then the
\* awaited establishment; the handle is stored when it resolved
TsAddConnection(m, n, ok) ==
  IF MapHas(m, n) THEN m
  ELSE IF ok THEN MapSet(m, n, "CONNECTED")
  ELSE m

\* addConnection of the .mjs variant: the has-guard, then createConnection is
\* not awaited and its handle is stored at once; when the establishment fails
\* the "error" listener logs, and the entry goes only if the driver emits
\* "disconnected" as well (disc)
MjsAddConnection(m, n, ok, disc) ==
  IF MapHas(m, n) THEN m
  ELSE IF ok THEN MapSet(m, n, "CONNECTED")
  ELSE IF disc THEN m
  ELSE MapSet(m, n, "DISCONNECTED")

EqAddConnection(n, ok, disc) ==
  /\ tsConnections' = TsAddConnection(tsConnections, n, ok)
  /\ mjsConnections' = MjsAddConnection(mjsConnections, n, ok, disc)
  /\ outcome' = [v \in Variants |-> "returned"]
  /\ lastCall' = [op |-> "addConnection", name |-> n, ok |-> ok, fails |-> {}]
  /\ UNCHANGED <<progVars, sigVars, evVars>>

\* closeConnection of the .ts variant: a warning when the name is absent; else
\* await close(), whose rejection is not caught; the "disconnected" listener
\* removes the entry of a close that succeeded
TsCloseConnection(m, n, ok) ==
  IF MapHas(m, n) /\ ok THEN MapDelete(m, n) ELSE m

TsCloseOutcome(m, n, ok) == IF MapHas(m, n) /\ ~ok THEN "threw" ELSE "returned"

\* closeConnection of the .mjs variant: await connection.close(), then
\* this.Connections.delete(name); a rejection skips the delete
MjsCloseConnection(m, n, ok) ==
  IF MapHas(m, n) /\ ok THEN MapDelete(m, n) ELSE m

MjsCloseOutcome(m, n, ok) == IF MapHas(m, n) /\ ~ok THEN "threw" ELSE "returned"

EqCloseConnection(n, ok) ==
  /\ tsConnections' = TsCloseConnection(tsConnections, n, ok)
  /\ mjsConnections' = MjsCloseConnection(mjsConnections, n, ok)
  /\ outcome' = [v \in Variants |->
                   IF v = "ts" THEN TsCloseOutcome(tsConnections, n, ok)
                               ELSE MjsCloseOutcome(mjsConnections, n, ok)]
  /\ lastCall' = [op |-> "closeConnection", name |-> n, ok |-> ok, fails |-> {}]
  /\ UNCHANGED <<progVars, sigVars, evVars>>

\* closeAllConnections of the .ts variant: every close is issued and its
\* rejection caught, allSettled, clear()
TsCloseAllConnections(m, fails) == MapClear

TsCloseAllOutcome(m, fails) == "returned"

\* the entries whose close rejects
Failing(m, fails) == {i \in 1..Len(m) : m[i].key \in fails}

\* closeAllConnections of the .mjs variant: for (const [name, conn] of
\* this.Connections) await conn.close(), nothing caught, then clear(): the
\* first rejection ends the call, with that entry and the later ones in the map
MjsCloseAllConnections(m, fails) ==
  IF Failing(m, fails) = {} THEN MapClear
  ELSE SubSeq(m, CHOOSE i \in Failing(m, fails) : \A j \in Failing(m, fails) : i <= j,
              Len(m))

MjsCloseAllOutcome(m, fails) == IF Failing(m, fails) = {} THEN "returned" ELSE "threw"

EqCloseAllConnections(fails) ==
  /\ tsConnections' = TsCloseAllConnections(tsConnections, fails)
  /\ mjsConnections' = MjsCloseAllConnections(mjsConnections, fails)
  /\ outcome' = [v \in Variants |->
                   IF v = "ts" THEN TsCloseAllOutcome(tsConnections, fails)
                               ELSE MjsCloseAllOutcome(mjsConnections, fails)]
  /\ lastCall' = [op |-> "closeAllConnections", name |-> NoName, ok |-> fails = {},
                  fails |-> fails]
  /\ UNCHANGED <<progVars, sigVars, evVars>>

\* ------------------------------------------------------------------ init
Init ==
  /\ Connections = <<>>
  /\ readyState = [h \in Handles |-> "NONE"]
  /\ connName = [h \in Handles |-> NoName]
  /\ listeners = {}
  /\ pendingDisc = {}
  /\ nextHandle = 0
  /\ tasks = [t \in Tasks |-> IdleTask]
  /\ moduleInstances = <<>>
  /\ props = [m \in ModelNames |-> Undefined]
  /\ instances = <<>>
  /\ passCount = 0
  /\ appReady = FALSE
  /\ registries = {}
  /\ stored = [r \in Registries |-> {}]
  /\ handler = [r \in Registries |-> IdleHandler]
  /\ signalled = FALSE
  /\ exited = FALSE
  /\ lastEvent = NoEvent
  /\ tsConnections = <<>>
  /\ mjsConnections = <<>>
  /\ outcome = [v \in Variants |-> "none"]
  /\ lastCall = NoCall

\* the connection registry, called by any number of overlapping callers
Next ==
  \/ \E t \in Tasks, n \in Names : AddConnection(t, n)
  \/ \E t \in Tasks : AddResolved(t)
  \/ \E t \in Tasks : AddRejected(t)
  \/ \E t \in Tasks, n \in Names : GetOrCreateConnection(t, n)
  \/ \E t \in Tasks : GetOrCreateReturn(t)
  \/ \E t \in Tasks, n \in Names : CloseConnection(t, n)
  \/ \E t \in Tasks, h \in Handles, ok \in BOOLEAN : CloseSettle(t, h, ok)
  \/ \E t \in Tasks : CloseConnectionReturn(t)
  \/ \E t \in Tasks : CloseAllConnections(t)
  \/ \E t \in Tasks : CloseAllReturn(t)
  \/ \E h \in Handles : DeliverDisconnected(h)
  \/ \E h \in Handles : DriverDisconnect(h)
  \/ \E t \in Tasks : Collect(t)

Spec == Init /\ [][Next]_vars

\* the registry and the events the driver emits on the handles it stored
NextEvents ==
  \/ \E t \in Tasks, n \in Names : AddConnection(t, n)
  \/ \E t \in Tasks : AddResolved(t)
  \/ \E t \in Tasks : AddRejected(t)
  \/ \E h \in Handles, ev \in Events : Emit(h, ev)
  \/ \E t \in Tasks : Collect(t)

SpecEvents == Init /\ [][NextEvents]_vars

\* the orchestrator: init, then reloads one after the other, over a registry whose
\* links may drop
NextApp ==
  \/ \E t \in Tasks : MyriadInit(t, ConfigFiles)
  \/ \E t \in Tasks : NoAppCall /\ ReloadModule(t, ConfigFiles)
  \/ \E t \in Tasks : Discover(t, FileLists)
  \/ \E t \in Tasks : BindRecord(t)
  \/ \E t \in Tasks : AddResolved(t)
  \/ \E t \in Tasks : AddRejected(t)
  \/ \E t \in Tasks : GetOrCreateReturn(t)
  \/ \E t \in Tasks : Instantiate(t)
  \/ \E t \in Tasks : PassReturn(t)
  \/ \E h \in Handles : DriverDisconnect(h)
  \/ \E t \in Tasks : Collect(t)

SpecApp == Init /\ [][NextApp]_vars

\* the process and its registries, up to process.exit
NextSig ==
  \/ \E r \in Registries : NewRegistry(r)
  \/ \E r \in Registries, n \in Names : Store(r, n)
  \/ Sigint
  \/ \E r \in Registries, n \in Names : HandlerCloseSettle(r, n)
  \/ \E r \in Registries : HandlerResume(r)

SpecSig == Init /\ [][NextSig]_vars

\* the configurations and the module files of an application that is reloaded
\* while it runs: both records, or the first one only
ReloadConfigs ==
  [exists : {TRUE}, useGlobalUri : {FALSE}, globalUri : {UndefinedUri}, libMode : {FALSE},
   records : { <<Record("main", "store://a", "User", StrRef("UserModule")),
                 Record("logs", "store://b", "Log", StrRef("logmodule"))>>,
               <<Record("main", "store://a", "User", StrRef("UserModule"))>> }]

ReloadFiles == { <<File("UserModule", TRUE), File("LogModule", TRUE)>> }

\* the orchestrator with reloadModule calls that overlap
NextReload ==
  \/ \E t \in Tasks : MyriadInit(t, ReloadConfigs)
  \/ \E t \in Tasks : ReloadOverlapping(t, ReloadConfigs)
  \/ \E t \in Tasks : Discover(t, ReloadFiles)
  \/ \E t \in Tasks : BindRecord(t)
  \/ \E t \in Tasks : AddResolved(t)
  \/ \E t \in Tasks : AddRejected(t)
  \/ \E t \in Tasks : GetOrCreateReturn(t)
  \/ \E t \in Tasks : Instantiate(t)
  \/ \E t \in Tasks : PassReturn(t)
  \/ \E t \in Tasks : Collect(t)

SpecReload == Init /\ [][NextReload]_vars

\* the same calls on both variants, one call at a time
NextEq ==
  \/ \E n \in Names, ok \in BOOLEAN, disc \in BOOLEAN : EqAddConnection(n, ok, disc)
  \/ \E n \in Names, ok \in BOOLEAN : EqCloseConnection(n, ok)
  \/ \E fails \in SUBSET Names : EqCloseAllConnections(fails)

SpecEq == Init /\ [][NextEq]_vars

\* =================================================================== claims
StartsCall(t, op, n) == IsIdle(t) /\ tasks'[t].op = op /\ tasks'[t].name = n

EntriesOf(m, n) == {i \in 1..Len(m) : m[i].key = n}

\* C1: addConnection(n, uri) called while n has a stored handle starts no new
\* establishment, leaves the map unchanged with exactly one entry for n, logs the
\* "already exists" warning and returns.
C1_SecondAddIsNoOp ==
  [][\A t \in Tasks, n \in Names :
       (StartsCall(t, "addConnection", n) /\ MapHas(Connections, n))
         => /\ Connections' = Connections
            /\ Cardinality(EntriesOf(Connections', n)) = 1
            /\ nextHandle' = nextHandle
            /\ readyState' = readyState
            /\ tasks'[t].pc = "done"
            /\ tasks'[t].log = Log("warn", "already exists")]_vars

C1_Witness ==
  \E t \in Tasks :
    /\ tasks[t].op = "addConnection"
    /\ tasks[t].pc = "done"
    /\ tasks[t].log = Log("warn", "already exists")
    /\ MapGet(Connections, tasks[t].name) # Undefined

\* C2: getOrCreateConnection(n, uri) called when n is absent starts one establishment;
\* when that establishment resolves its handle is stored under n, and the call returns
\* what the map then holds for n.  Called while n is present, it returns the stored
\* handle at once, starts no establishment and leaves the map unchanged.
C2_GetOrCreate ==
  [][\A t \in Tasks :
       /\ \A n \in Names :
            StartsCall(t, "getOrCreateConnection", n) =>
              IF MapHas(Connections, n)
                THEN /\ tasks'[t].pc = "done"
                     /\ tasks'[t].result = MapGet(Connections, n)
                     /\ tasks'[t].result # Undefined
                     /\ nextHandle' = nextHandle
                     /\ Connections' = Connections
                ELSE /\ tasks'[t].pc = "awaitConnect"
                     /\ nextHandle' = nextHandle + 1
                     /\ tasks'[t].conn = nextHandle'
       /\ (tasks[t].op = "getOrCreateConnection" /\ tasks[t].pc = "awaitConnect"
           /\ tasks'[t].pc = "reread" /\ tasks'[t].conn # Undefined)
            => MapGet(Connections', tasks[t].name) = tasks[t].conn
       /\ (tasks[t].op = "getOrCreateConnection" /\ tasks[t].pc = "reread"
           /\ tasks'[t].pc = "done")
            => /\ tasks'[t].result = MapGet(Connections, tasks[t].name)
               /\ nextHandle' = nextHandle]_vars

\* a call that found n absent has returned the handle it established, which is stored
C2_Witness ==
  \E t \in Tasks :
    /\ tasks[t].op = "getOrCreateConnection"
    /\ tasks[t].pc = "done"
    /\ tasks[t].conn # Undefined
    /\ tasks[t].result = tasks[t].conn
    /\ MapGet(Connections, tasks[t].name) = tasks[t].conn

\* C3: when closeAllConnections returns the connection map is empty, whatever the
\* outcomes of the close requests were.
C3_CloseAllEmptiesMap ==
  [][\A t \in Tasks :
       (tasks[t].op = "closeAllConnections" /\ tasks[t].pc = "awaitAll"
        /\ tasks'[t].pc # "awaitAll")
         => (tasks'[t].pc = "done" /\ Connections' = <<>>)]_vars

\* closeAllConnections has returned after closing two entries, one close failed
C3_Witness ==
  \E t \in Tasks :
    /\ tasks[t].op = "closeAllConnections"
    /\ tasks[t].pc = "done"
    /\ Connections = <<>>
    /\ \E h1, h2 \in tasks[t].issued :
         readyState[h1] = "CONNECTED" /\ readyState[h2] = "DISCONNECTED"

\* C4: closeAllConnections issues a close on every entry of the map before it waits,
\* a failed close leaves it waiting for the others, and it returns (never throws)
\* only once every issued close has settled.
C4_AllOutcomesJoin ==
  [][\A t \in Tasks :
       /\ (IsIdle(t) /\ tasks'[t].op = "closeAllConnections")
            => /\ tasks'[t].issued = MapValues(Connections)
               /\ tasks'[t].pending = tasks'[t].issued
               /\ tasks'[t].pc = "awaitAll"
       /\ (tasks[t].op = "closeAllConnections" /\ tasks[t].pc = "awaitAll")
            => /\ tasks'[t].pc \in {"awaitAll", "done"}
               /\ tasks'[t].issued = tasks[t].issued
               /\ tasks'[t].pc = "done" => tasks[t].pending = {}
               /\ tasks'[t].pending # tasks[t].pending => tasks'[t].pc = "awaitAll"]_vars

\* one close of a closeAllConnections has failed while another is still awaited
C4_Witness ==
  \E t \in Tasks :
    /\ tasks[t].op = "closeAllConnections"
    /\ tasks[t].pc = "awaitAll"
    /\ tasks[t].log = Log("error", "closing")
    /\ tasks[t].pending # {}
    /\ Cardinality(tasks[t].issued) = 2

\* the handles that are open and were established for name n
LiveHandles(n) == {h \in Handles : readyState[h] = "CONNECTED" /\ connName[h] = n}

\* C8: at most one live handle exists per connection name: a name is given to a new
\* handle only after the prior handle for it is Disconnected and out of the registry.
C8_OneLiveHandlePerName ==
  \A n \in Names : Cardinality(LiveHandles(n)) <= 1

Established(t) ==
  /\ tasks[t].op \in {"addConnection", "getOrCreateConnection"}
  /\ tasks[t].pc \in {"reread", "done"}
  /\ tasks[t].conn # Undefined

\* C9: of two overlapping addConnection / getOrCreateConnection calls for the same
\* absent name the second is a no-op: they never both establish and store a handle,
\* no open handle is left outside the map, and both get the same handle back.
C9_OverlapIsSafeNoOp ==
  \A t1, t2 \in Tasks :
    (t1 # t2 /\ tasks[t1].name = tasks[t2].name /\ Established(t1) /\ Established(t2)
     /\ readyState[tasks[t1].conn] = "CONNECTED"
     /\ readyState[tasks[t2].conn] = "CONNECTED")
      => /\ MapGet(Connections, tasks[t1].name) = tasks[t1].conn
         /\ MapGet(Connections, tasks[t2].name) = tasks[t2].conn

\* C10: once closeConnection(name) has resolved after a successful close, the entry
\* of the handle it closed is no longer in the map.
C10_RemovedWhenCloseResolves ==
  \A t \in Tasks :
    (tasks[t].op = "closeConnection" /\ tasks[t].pc = "done"
     /\ tasks[t].conn # Undefined)
      => MapGet(Connections, tasks[t].name) # tasks[t].conn
\* ------------------------------------------------------------ orchestrator
IsAppCall(t) == tasks[t].op \in {"init", "reloadModule"}

\* task t takes a step of the reloadModule call it runs or starts
ReloadStep(t) == tasks'[t] # tasks[t] /\ tasks'[t].op = "reloadModule"

\* instance k is the last one its pass created under its registration name
LastOfName(k) ==
  \A j \in (k + 1)..Len(instances) :
    ~(instances[j].pass = instances[k].pass /\ instances[j].name = instances[k].name)

\* every instance that getModule can return was created by the latest pass, and
\* every instance the latest pass created is returned by getModule under its name
ModulesAreOfLatestPass ==
  /\ \A i \in 1..Len(moduleInstances) :
       instances[moduleInstances[i].val].pass = passCount
  /\ \A k \in 1..Len(instances) :
       (instances[k].pass = passCount /\ LastOfName(k))
         => GetModule(instances[k].name) = k

\* C5: reloadModule keeps the connections and replaces the module instances: no
\* step of a reload removes, replaces or closes a stored connection or
\* re-establishes a present name, and from the start of the reload on getModule
\* returns no instance of an earlier pass and returns the instances of the new pass.
C5_ReloadKeepsConnections ==
  [][/\ \A t \in Tasks :
          ReloadStep(t)
            => /\ Len(Connections') >= Len(Connections)
               /\ \A i \in 1..Len(Connections) : Connections'[i] = Connections[i]
               /\ \A h \in Handles :
                    readyState[h] = "CONNECTED" => readyState'[h] = "CONNECTED"
               /\ nextHandle' # nextHandle => ~MapHas(Connections, tasks'[t].name)
     /\ ModulesAreOfLatestPass']_vars

\* a reload has returned: a connection of the first pass is still stored with its
\* handle, an instance of the first pass exists and getModule returns a new one
C5_Witness ==
  \E t \in Tasks :
    /\ tasks[t].op = "reloadModule"
    /\ tasks[t].pc = "done"
    /\ \E k \in 1..Len(instances) :
         /\ instances[k].pass = 1
         /\ MapGet(Connections, connName[instances[k].conn]) = instances[k].conn
         /\ GetModule(instances[k].name) # Undefined
         /\ GetModule(instances[k].name) # k
         /\ instances[GetModule(instances[k].name)].conn = instances[k].conn

\* the binder's rules on the arguments of a pass: the record's effective URI is
\* missing / its blueprint resolves
UriMissing(args, r) ==
  ~Truthy(IF args.globalUri # UndefinedUri THEN args.globalUri ELSE r.uri)

BlueprintResolves(args, catalog, r) ==
  IF args.libMode THEN TRUE
  ELSE r.modelModule.kind = "string" /\ MapHas(catalog, ToLowerCase(r.modelModule.id))

ValidRecords(t) ==
  {i \in 1..Len(tasks[t].cfg.records) :
     /\ ~UriMissing(tasks[t].cfg, tasks[t].cfg.records[i])
     /\ BlueprintResolves(tasks[t].cfg, tasks[t].catalog, tasks[t].cfg.records[i])}

\* task t is about to handle a record that has no URI (before the connection step)
\* or whose blueprint name does not resolve (after it)
ToBeSkipped(t) ==
  \/ /\ tasks[t].pc = "record"
     /\ tasks[t].idx <= Len(tasks[t].cfg.records)
     /\ tasks[t].cfg.records[tasks[t].idx].modelModule.kind = "string"
     /\ UriMissing(tasks[t].cfg, tasks[t].cfg.records[tasks[t].idx])
  \/ /\ tasks[t].pc = "gotConnection"
     /\ tasks[t].cfg.records[tasks[t].idx].modelModule.kind = "string"
     /\ ~BlueprintResolves(tasks[t].cfg, tasks[t].catalog,
                           tasks[t].cfg.records[tasks[t].idx])

InstancesOfPass(p) == {k \in 1..Len(instances) : instances[k].pass = p}

\* C6: a record skipped for a missing URI or an unresolved blueprint registers
\* nothing and the pass goes on with the next record; when the pass returns, every
\* valid record of the batch, before or after a skipped one, has its instance
\* registered, and nothing else was registered by the pass.
C6_SkipIsIsolated ==
  [][\A t \in Tasks :
       /\ (IsAppCall(t) /\ tasks'[t] # tasks[t] /\ ToBeSkipped(t))
            => /\ tasks'[t].pc = "record"
               /\ tasks'[t].idx = tasks[t].idx + 1
               /\ tasks'[t].log.level = "warn"
               /\ UNCHANGED <<moduleInstances, props, instances, Connections>>
       /\ (IsAppCall(t) /\ tasks[t].pc \in {"record", "gotConnection"}
           /\ tasks'[t].pc = "done")
            => /\ \A i \in ValidRecords(t) :
                    /\ GetModule(tasks[t].cfg.records[i].name) \in
                         InstancesOfPass(tasks[t].pass)
                    /\ \E k \in InstancesOfPass(tasks[t].pass) :
                         /\ instances[k].name = tasks[t].cfg.records[i].name
                         /\ instances[k].model = tasks[t].cfg.records[i].modelName
               /\ Cardinality(InstancesOfPass(tasks[t].pass)) =
                    Cardinality(ValidRecords(t))]_vars

\* a pass has returned whose batch holds a record with no URI under no global URI
\* and a valid record, and exactly the valid one is registered
C6_Witness ==
  \E t \in Tasks :
    /\ IsAppCall(t)
    /\ tasks[t].pc = "done"
    /\ tasks[t].cfg.globalUri = UndefinedUri
    /\ Len(tasks[t].cfg.records) = 2
    /\ tasks[t].cfg.records[1].uri = UndefinedUri
    /\ 2 \in ValidRecords(t)
    /\ Cardinality(InstancesOfPass(tasks[t].pass)) = 1
    /\ GetModule(tasks[t].cfg.records[2].name) \in InstancesOfPass(tasks[t].pass)

\* C7: no recoverable condition throws out of the public API: a failed
\* instantiation or a connection that could not be established does not make
\* init / reloadModule throw, and a failed close does not make closeConnection throw.
C7_RecoverableNeverThrows ==
  \A t \in Tasks :
    tasks[t].pc = "threw"
      => /\ tasks[t].log # Log("throw", "constructor")
         /\ tasks[t].op # "closeConnection"

\* C11: on SIGINT closeAllConnections is invoked exactly once per registry, and
\* process.exit(0) is never called before the closeAllConnections of every registry
\* of the process has completed.
C11_ExitAfterEveryCloseAll ==
  /\ signalled => \A r \in Registries : handler[r].calls <= 1
  /\ exited => \A r \in Registries : handler[r].pc # "awaitAll"

\* C12: a missing configuration file is fatal: init / reloadModule throw to their
\* caller, and in that call no binding step runs: no connection is created or
\* changed, no module instance is created and none is registered.
C12_MissingConfigIsFatal ==
  [][\A t \in Tasks :
       /\ (tasks'[t] # tasks[t] /\ tasks'[t].op \in {"init", "reloadModule"}
           /\ ~tasks'[t].exists)
            => /\ tasks'[t].pc = "threw"
               /\ tasks'[t].log = Log("throw", "config not found")
               /\ tasks'[t].idx = 0
               /\ UNCHANGED <<regVars, instances, props>>
               /\ moduleInstances' = <<>>
       /\ (IsAppCall(t) /\ ~tasks[t].exists /\ tasks'[t] # tasks[t])
            => tasks'[t] = IdleTask]_vars

\* a reload has thrown for a missing file: the connection and the instance of the
\* first pass are still there, and no module is registered
C12_Witness ==
  \E t \in Tasks :
    /\ tasks[t].op = "reloadModule"
    /\ tasks[t].pc = "threw"
    /\ ~tasks[t].exists
    /\ Len(Connections) = 1
    /\ Len(instances) = 1
    /\ moduleInstances = <<>>

\* the records of the end-to-end example, with blueprint names that resolve
E2ERecords ==
  << Record("main", "store://a", "User", StrRef("UserModule")),
     Record("logs", "store://b", "Log", StrRef("logmodule")) >>

\* every connection created so far was established and is still open
AllEstablished == \A h \in 1..nextHandle : readyState[h] = "CONNECTED"

\* C13: init over the records [main/store://a/User, logs/store://b/Log] with no
\* global URI, both blueprints discovered and both establishments succeeding:
\* when the binding pass returns, getAllConnections(false) is <<"main", "logs">>,
\* and the application exposes a module for "User" and one for "Log".
C13_EndToEnd ==
  [][\A t \in Tasks :
       (/\ tasks[t].op = "init" /\ tasks[t].pc = "record" /\ tasks'[t].pc = "done"
        /\ tasks[t].cfg =
             [records |-> E2ERecords, globalUri |-> UndefinedUri, libMode |-> FALSE]
        /\ MapHas(tasks[t].catalog, "usermodule")
        /\ MapHas(tasks[t].catalog, "logmodule")
        /\ AllEstablished)
         => /\ GetAllConnections(FALSE)' = <<"main", "logs">>
            /\ props'["User"] # Undefined
            /\ instances'[props'["User"]].model = "User"
            /\ instances'[props'["User"]].conn = MapGet(Connections', "main")
            /\ GetModule("main")' = props'["User"]
            /\ props'["Log"] # Undefined
            /\ instances'[props'["Log"]].model = "Log"
            /\ instances'[props'["Log"]].conn = MapGet(Connections', "logs")
            /\ GetModule("logs")' = props'["Log"]]_vars

\* init has returned from a pass over the two records of the example
C13_Witness ==
  \E t \in Tasks :
    /\ tasks[t].op = "init"
    /\ tasks[t].pc = "done"
    /\ tasks[t].cfg.records = E2ERecords
    /\ tasks[t].cfg.globalUri = UndefinedUri
    /\ GetAllConnections(FALSE) = <<"main", "logs">>
    /\ GetAllConnections(TRUE) =
         << [name |-> "main", state |-> "CONNECTED"],
            [name |-> "logs", state |-> "CONNECTED"] >>
    /\ GetModule("main") = 1
    /\ GetModule("logs") = 2

\* task t handles a record whose blueprint is a name: the step of the URI check
AtUriCheck(t) ==
  /\ IsAppCall(t)
  /\ tasks[t].pc = "record"
  /\ tasks[t].idx <= Len(tasks[t].cfg.records)
  /\ tasks[t].cfg.records[tasks[t].idx].modelModule.kind = "string"
  /\ tasks'[t] # tasks[t]

\* C14: whatever useGlobalUri, globalUri (absent, empty, non-empty) and the
\* record's URI (absent, present) are, the binder skips a record for a missing URI
\* only when neither a global URI nor a record URI is present; otherwise it binds
\* it with the global URI under the shared name when the policy is active, and
\* with the record's own URI under the record's name when it is not.
C14_UriResolution ==
  [][\A t \in Tasks :
       AtUriCheck(t) =>
         LET r == tasks[t].cfg.records[tasks[t].idx]
             g == tasks[t].cfg.globalUri
         IN IF ~Truthy(g) /\ ~Truthy(r.uri)
              THEN /\ tasks'[t].pc = "record"
                   /\ tasks'[t].idx = tasks[t].idx + 1
              ELSE /\ tasks'[t].pc \in {"awaitConnect", "gotConnection"}
                   /\ tasks'[t].name = IF Truthy(g) THEN "globalDB" ELSE r.name
                   /\ EffectiveUri(t) = IF Truthy(g) THEN g ELSE r.uri]_vars

\* the handles created for name n: established under it, or being established
HandlesFor(n) ==
  {h \in Handles :
     \/ connName[h] = n
     \/ \E u \in Tasks : /\ tasks[u].pc = "awaitConnect"
                         /\ tasks[u].conn = h
                         /\ tasks[u].name = n}

\* no establishment has failed and no link has dropped
NoFailure == \A h \in 1..nextHandle : readyState[h] \in {"CONNECTING", "CONNECTED"}

\* C15: a binding pass handles its records one after the other, each connection
\* step awaited before the next record starts.  Under an active global URI, with
\* no establishment failing, a pass over any number of records starts at most one
\* establishment (exactly one when it is the first pass), the registry holds the one
\* shared connection, and every instance the pass creates is bound to that handle.
C15_OneSharedConnection ==
  \A t \in Tasks :
    (IsAppCall(t) /\ Truthy(tasks[t].cfg.globalUri) /\ tasks[t].pc # "threw"
     /\ NoFailure)
      => /\ Cardinality(HandlesFor("globalDB")) <= 1
         /\ \A u \in Tasks : u # t => tasks[u].pc \notin {"awaitConnect", "reread"}
         /\ \A k \in InstancesOfPass(tasks[t].pass) :
              /\ instances[k].conn # Undefined
              /\ instances[k].conn = MapGet(Connections, "globalDB")
         /\ (tasks[t].pc = "done" /\ Len(tasks[t].cfg.records) >= 1)
              => /\ Cardinality(HandlesFor("globalDB")) = 1
                 /\ MapGet(Connections, "globalDB") \in HandlesFor("globalDB")
                 /\ Cardinality(EntriesOf(Connections, "globalDB")) = 1
         /\ (tasks[t].pc = "done" /\ tasks[t].op = "init"
             /\ Len(tasks[t].cfg.records) >= 1)
              => /\ nextHandle = 1
                 /\ GetAllConnections(FALSE) = <<"globalDB">>

\* init under a global URI has bound two records of different names: one
\* establishment, both instances on the shared handle
C15_Witness ==
  \E t \in Tasks :
    /\ tasks[t].op = "init"
    /\ tasks[t].pc = "done"
    /\ tasks[t].cfg.globalUri = "store://g"
    /\ Len(tasks[t].cfg.records) = 2
    /\ tasks[t].cfg.records[1].name # tasks[t].cfg.records[2].name
    /\ nextHandle = 1
    /\ Len(instances) = 2
    /\ instances[1].conn = instances[2].conn
    /\ instances[1].conn = MapGet(Connections, "globalDB")

\* record i of the pass of t carries its blueprint and has a URI the binder accepts
CarriesBlueprint(t, i) ==
  /\ tasks[t].cfg.records[i].modelModule.kind = "class"
  /\ ~UriMissing(tasks[t].cfg, tasks[t].cfg.records[i])

\* C16: in library mode (libMode = true) no directory scan is made, and every
\* record with a resolvable URI that carries the blueprint itself is instantiated
\* from it and registered: the pass does not fail at such a record (unless its
\* connection could not be established), and once past it the record's instance
\* exists.
C16_LibraryMode ==
  \A t \in Tasks :
    (IsAppCall(t) /\ tasks[t].cfg.libMode)
      => /\ tasks[t].catalog = <<>>
         /\ \A i \in 1..Len(tasks[t].cfg.records) :
              (CarriesBlueprint(t, i) /\ (i < tasks[t].idx \/ tasks[t].pc = "done"))
                => \E k \in InstancesOfPass(tasks[t].pass) :
                     /\ instances[k].name = tasks[t].cfg.records[i].name
                     /\ instances[k].model = tasks[t].cfg.records[i].modelName
         /\ (tasks[t].pc = "threw" /\ tasks[t].idx \in 1..Len(tasks[t].cfg.records)
             /\ CarriesBlueprint(t, tasks[t].idx))
              => /\ tasks[t].log = Log("throw", "constructor")
                 /\ tasks[t].result = Undefined

\* two blueprint names that are the same up to letter case
SameName(a, b) == ToLowerCase(a) = ToLowerCase(b)

\* the last file of the scan that declares the name x, up to case
LastFile(files, x) ==
  CHOOSE i \in 1..Len(files) :
    /\ SameName(files[i].cls, x)
    /\ \A j \in (i + 1)..Len(files) : ~SameName(files[j].cls, x)

\* the catalog of a finished scan: one entry per name, that of the last file
CatalogIsLastWins(files, cat) ==
  /\ \A i \in 1..Len(files) :
       /\ Cardinality(EntriesOf(cat, ToLowerCase(files[i].cls))) = 1
       /\ MapGet(cat, ToLowerCase(files[i].cls)) =
            [cls |-> files[LastFile(files, files[i].cls)].cls,
             file |-> LastFile(files, files[i].cls)]
  /\ \A e \in 1..Len(cat) : \E i \in 1..Len(files) : cat[e].key = ToLowerCase(files[i].cls)

\* C17: the discovery catalog is keyed by the lower-cased blueprint name and holds
\* exactly one entry per name; of two scanned files that declare the same name up
\* to case it keeps the blueprint of the file scanned last, and a record's
\* blueprint name resolves to that blueprint whatever its letter case.
C17_CatalogLastWins ==
  [][\A t \in Tasks :
       /\ (tasks[t].pc = "loaded" /\ tasks'[t].pc = "record")
            => CatalogIsLastWins(tasks'[t].files, tasks'[t].catalog)
       /\ (tasks[t].pc = "gotConnection" /\ Len(instances') > Len(instances))
            => LET r == tasks[t].cfg.records[tasks[t].idx]
                   f == LastFile(tasks[t].files, r.modelModule.id)
               IN /\ \E i \in 1..Len(tasks[t].files) :
                       SameName(tasks[t].files[i].cls, r.modelModule.id)
                  /\ instances'[Len(instances')].blueprint =
                       [cls |-> tasks[t].files[f].cls, file |-> f]]_vars

\* an instance was created from the second of two files that declare the same
\* name, by a record whose reference is written as the first file's class
C17_Witness ==
  \E t \in Tasks, k \in 1..Len(instances) :
    /\ IsAppCall(t)
    /\ instances[k].pass = tasks[t].pass
    /\ Len(tasks[t].files) = 2
    /\ tasks[t].files[1].cls # tasks[t].files[2].cls
    /\ SameName(tasks[t].files[1].cls, tasks[t].files[2].cls)
    /\ Len(tasks[t].catalog) = 1
    /\ instances[k].blueprint = [cls |-> tasks[t].files[2].cls, file |-> 2]
    /\ tasks[t].cfg.records[1].modelModule.id = tasks[t].files[1].cls

\* C18: a module file that fails to load, or has no default export, is reported
\* for that file only: the scan goes on, the files that load are in the catalog
\* and the construction phase runs over the records with that partial catalog.
C18_ScanSurvivesBadFile ==
  \A t \in Tasks :
    (IsAppCall(t) /\ \E i \in 1..Len(tasks[t].files) : Bad(tasks[t].files[i]))
      => /\ tasks[t].idx >= 1
         /\ tasks[t].log \notin {Log("throw", "import failed"),
                                  Log("throw", "no default export")}
         /\ \A i \in 1..Len(tasks[t].files) :
              ~Bad(tasks[t].files[i])
                => MapHas(tasks[t].catalog, ToLowerCase(tasks[t].files[i].cls))

\* the establishment awaited by task t is rejected in this step
EstablishmentFails(t) ==
  /\ tasks[t].pc = "awaitConnect"
  /\ readyState'[tasks[t].conn] = "DISCONNECTED"

\* C19: when the establishment of addConnection(n, uri) fails, the map is left as
\* it was and the handle is stored nowhere, the failure is logged and addConnection
\* returns without throwing; the getOrCreateConnection that made the call then
\* returns what the map holds for n, which is undefined unless another call has
\* stored n.
C19_FailedEstablishment ==
  [][\A t \in Tasks :
       /\ EstablishmentFails(t)
            => /\ Connections' = Connections
               /\ tasks[t].conn \notin MapValues(Connections')
               /\ listeners' = listeners
               /\ tasks'[t].log = Log("error", "failed to connect")
               /\ tasks'[t].pc =
                    IF tasks[t].op = "addConnection" THEN "done" ELSE "reread"
       /\ (tasks[t].op = "getOrCreateConnection" /\ tasks[t].pc = "reread"
           /\ tasks[t].conn = Undefined /\ tasks'[t] # tasks[t])
            => /\ tasks'[t].pc = "done"
               /\ tasks'[t].result = MapGet(Connections, tasks[t].name)
               /\ ~MapHas(Connections, tasks[t].name) => tasks'[t].result = Undefined]_vars

\* a getOrCreateConnection whose establishment failed has returned undefined and
\* its name is not in the map
C19_Witness ==
  \E t \in Tasks :
    /\ tasks[t].op = "getOrCreateConnection"
    /\ tasks[t].pc = "done"
    /\ tasks[t].log = Log("error", "failed to connect")
    /\ tasks[t].result = Undefined
    /\ ~MapHas(Connections, tasks[t].name)
    /\ \E h \in Handles : readyState[h] = "DISCONNECTED" /\ h \notin listeners

\* C20: right after the binding step of a record that binds, getModule of the
\* record's name and the application property of the record's entity name both
\* yield the instance just created, whatever was registered under them before;
\* the map holds one entry for the name and the other names keep their instances.
C20_LastRegistrationWins ==
  [][\A t \in Tasks :
       (tasks[t].pc = "gotConnection" /\ Len(instances') > Len(instances))
         => LET r == tasks[t].cfg.records[tasks[t].idx]
                k == Len(instances')
            IN /\ k = Len(instances) + 1
               /\ instances'[k].name = r.name
               /\ instances'[k].model = r.modelName
               /\ instances'[k].conn = tasks[t].result
               /\ MapGet(moduleInstances', r.name) = k
               /\ props'[r.modelName] = k
               /\ Cardinality(EntriesOf(moduleInstances', r.name)) = 1
               /\ \A n \in Names :
                    n # r.name => MapGet(moduleInstances', n) = GetModule(n)
               /\ \A m \in ModelNames : m # r.modelName => props'[m] = props[m]]_vars

\* two records of one pass were bound under the same name and entity: the second
\* instance is the one registered
C20_Witness ==
  \E t \in Tasks :
    /\ IsAppCall(t)
    /\ Len(instances) >= 2
    /\ instances[Len(instances)].pass = tasks[t].pass
    /\ instances[Len(instances) - 1].pass = tasks[t].pass
    /\ instances[Len(instances)].name = instances[Len(instances) - 1].name
    /\ instances[Len(instances)].model = instances[Len(instances) - 1].model
    /\ GetModule(instances[Len(instances)].name) = Len(instances)
    /\ props[instances[Len(instances)].model] = Len(instances)
\* C21: a "connected" or an "error" event handled on a stored handle leaves the
\* connection map as it is (the handle that reported the error stays stored), and
\* a "disconnected" event removes the entry of the name the handle was added under
C21_ListenersAndTheMap ==
  [][\A h \in Handles, ev \in Events :
       (lastEvent' = [handle |-> h, kind |-> ev] /\ lastEvent' # lastEvent)
         => Connections' = IF ev = "disconnected"
                             THEN MapDelete(Connections, connName[h])
                             ELSE Connections]_vars

C21_Witness ==
  /\ lastEvent.kind = "error"
  /\ lastEvent.handle \in MapValues(Connections)
  /\ readyState[lastEvent.handle] = "CONNECTED"

\* C22: a "disconnected" event removes a map entry only when the entry holds the
\* handle that emitted it: every entry that holds another handle, a newer one
\* stored under the same name included, is still in the map after the listener ran
C22_OnlyTheEmitterIsRemoved ==
  [][\A h \in Handles :
       (lastEvent' = [handle |-> h, kind |-> "disconnected"] /\ lastEvent' # lastEvent)
         => \A i \in 1..Len(Connections) :
              Connections[i].val # h
                => MapGet(Connections', Connections[i].key) = Connections[i].val]_vars

\* closeAllConnections of task t resumes after its join and clears the map
ClearStep(t) ==
  /\ tasks[t].op = "closeAllConnections"
  /\ tasks[t].pc = "awaitAll"
  /\ tasks'[t].pc = "done"

\* C23: every entry closeAllConnections drops from the map holds a handle the
\* call has issued a close request on, so a handle stored while the call waits
\* for the close outcomes is not cleared while still open
C23_ClearedMeansCloseIssued ==
  [][\A t \in Tasks :
       ClearStep(t)
         => \A i \in 1..Len(Connections) :
              ~MapHas(Connections', Connections[i].key)
                => Connections[i].val \in tasks[t].issued]_vars

\* C24: when an init or a reload has returned, every module instance that is a
\* property of the application object is also held in the module map, so the
\* instance of a record that was removed or skipped is no longer reachable
\* through its entity-name property
C24_PropertiesAreInTheMap ==
  \A t \in Tasks :
    (IsAppCall(t) /\ tasks[t].pc = "done")
      => \A m \in ModelNames :
           props[m] # Undefined => props[m] \in MapValues(moduleInstances)

\* a module instance of pass p is bound to handle h
BoundInPass(h, p) == \E k \in InstancesOfPass(p) : instances[k].conn = h

\* the name the binder connects record r under, on the arguments of a pass
NameOf(args, r) == IF Truthy(args.globalUri) THEN "globalDB" ELSE r.name

\* a record of the pass of t has a URI, was connected under name n, and was then
\* skipped because its blueprint did not resolve
SkippedAfterConnecting(t, n) ==
  \E j \in 1..Len(tasks[t].cfg.records) :
    /\ ~UriMissing(tasks[t].cfg, tasks[t].cfg.records[j])
    /\ ~BlueprintResolves(tasks[t].cfg, tasks[t].catalog, tasks[t].cfg.records[j])
    /\ NameOf(tasks[t].cfg, tasks[t].cfg.records[j]) = n

\* C25 as claimed: a skipped record creates no connection, so when the first
\* binding pass has returned every connection in the registry (all of them added
\* by that pass) has a module instance of the pass bound to it
C25_EveryAddedConnectionIsBound ==
  \A t \in Tasks :
    (tasks[t].op = "init" /\ tasks[t].pc = "done")
      => \A i \in 1..Len(Connections) : BoundInPass(Connections[i].val, 1)

\* C25: a record skipped for a missing URI creates no connection, and a record
\* whose blueprint does not resolve is skipped after its connection was obtained:
\* when the first binding pass has returned, every connection in the registry has
\* a module instance of the pass bound to it or is the connection of a record
\* that has a URI and an unresolved blueprint
C25_OnlyUriSkipCreatesNoConnection ==
  \A t \in Tasks :
    (tasks[t].op = "init" /\ tasks[t].pc = "done")
      => \A i \in 1..Len(Connections) :
           \/ BoundInPass(Connections[i].val, 1)
           \/ SkippedAfterConnecting(t, Connections[i].key)

\* the first pass has returned after skipping one record for its missing URI and
\* another for its blueprint: the connection of the second is stored, unbound
C25_Witness ==
  \E t \in Tasks :
    /\ tasks[t].op = "init"
    /\ tasks[t].pc = "done"
    /\ \E j \in 1..Len(tasks[t].cfg.records) :
         UriMissing(tasks[t].cfg, tasks[t].cfg.records[j])
    /\ \E i \in 1..Len(Connections) :
         /\ ~BoundInPass(Connections[i].val, 1)
         /\ SkippedAfterConnecting(t, Connections[i].key)

\* a reload is in progress in task t, its discovery done
Reloading(t) ==
  /\ tasks[t].op = "reloadModule"
  /\ tasks[t].pc \in {"record", "awaitConnect", "gotConnection"}

\* an earlier pass has registered an instance under name n
BoundBefore(t, n) ==
  \E k \in 1..Len(instances) : instances[k].pass < tasks[t].pass /\ instances[k].name = n

\* the instances a complete pass p leaves in the module map
CompletePass(p) == {k \in InstancesOfPass(p) : LastOfName(k)}

\* C26: while a reload is in progress, getModule(name) of a record that is validly
\* bound before and after the reload never returns not-found; and when two
\* reloads have both returned, the module map holds exactly the instances of one
\* complete binding pass
C26_ReloadIsAtomic ==
  /\ \A t \in Tasks :
       Reloading(t)
         => \A j \in ValidRecords(t) :
              BoundBefore(t, tasks[t].cfg.records[j].name)
                => GetModule(tasks[t].cfg.records[j].name) # Undefined
  /\ \A t, u \in Tasks :
       (/\ t # u
        /\ tasks[t].op = "reloadModule" /\ tasks[t].pc = "done"
        /\ tasks[u].op = "reloadModule" /\ tasks[u].pc = "done")
         => \E p \in {tasks[t].pass, tasks[u].pass} :
              MapValues(moduleInstances) = CompletePass(p)

\* the set of names in a connection map
NamesIn(m) == {m[i].key : i \in 1..Len(m)}

\* C27: after every sequence of addConnection, closeConnection and
\* closeAllConnections calls, under every assignment of establishment and close
\* outcomes, the .mjs variant and the .ts variant have ended their latest call
\* alike (returned or thrown) and hold the same set of names in their maps
C27_VariantsAgree ==
  /\ outcome["ts"] = outcome["mjs"]
  /\ NamesIn(tsConnections) = NamesIn(mjsConnections)

====
